---- MODULE Spec2Model ----
(***************************************************************************)
(* Model of the Kurdish OCR repository:                                    *)
(*   - src/kurdish_nltk.py : KurdishTokenizer (normalize, tokenize,        *)
(*     sentence_tokenize) and KurdishStemmer (stem);                       *)
(*   - src/app.py          : the Streamlit form handler main() and the     *)
(*     temporary file it creates for an upload.                            *)
(* A Python str is a sequence of code points (integers, in decimal).       *)
(***************************************************************************)
EXTENDS Integers, Sequences, FiniteSets, TLC

VARIABLES
    input,      \* the string the caller started from
    text,       \* the caller's current string (input, or normalize applied to it)
    nNorm,      \* how many times the caller applied normalize to text
    words,      \* result of the last tokenize(text) call
    sentences,  \* result of the last sentence_tokenize(text) call
    done,       \* which of "tokenize", "sentence_tokenize" have been called on text
    pfx, root, sfx,  \* the pieces the stemmer's input word was built from
    word,       \* the stemmer's input
    stemmed,    \* the value stem(word) returned
    rmPrefix,   \* index in prefixes of the prefix stem removed (0: none)
    rmSuffix,   \* index in suffixes of the suffix stem removed (0: none)
    stemPc,     \* "idle" before stem is called, "done" after it returned
    appPc,      \* position of main() in src/app.py
    form,       \* the submitted form of the current script run
    fs,         \* temporary files that exist on disk
    tmpPath,    \* the file created by _save_to_temp_file in this run (0: none)
    created,    \* temporary files created by the current run
    blocks,     \* number of text blocks _process_document has collected
    page,       \* pages of the PDF still to be processed
    runs        \* script runs started so far

tokVars  == <<input, text, nNorm, words, sentences, done>>
stemVars == <<pfx, root, sfx, word, stemmed, rmPrefix, rmSuffix, stemPc>>
appVars  == <<appPc, form, fs, tmpPath, created, blocks, page, runs>>
vars     == <<tokVars, stemVars, appVars>>

(***************************************************************************)
(* Bounds of the model.                                                    *)
(***************************************************************************)
MaxLen == 3
MaxSentLen == 4
MaxNormCalls == 2
MaxRoot == 3
MaxRuns == 2
MaxPages == 2

(***************************************************************************)
(* Code points.                                                            *)
(***************************************************************************)
KAF_AR == 1603
KAF_KU == 1705
YEH_AR == 1610
YEH_KU == 1740
HEH == 1607
AE == 1749
ZWNJ == 8204
FATHA == 1614
HAMZA_ABOVE == 1620
YEH_HAMZA == 1574
HEH_YEH_ABOVE == 1728
LATIN_A == 97
SPACE == 32
NEWLINE == 10
UNDERSCORE == 95
COMMA == 44
FULL_STOP == 46
EXCLAMATION == 33
QUESTION == 63
ARABIC_COMMA == 1548
ARABIC_QUESTION == 1567

(***************************************************************************)
(* Generic string helpers (Python str methods).                            *)
(***************************************************************************)
RECURSIVE Concat(_)
Concat(ss) == IF ss = <<>> THEN <<>> ELSE Head(ss) \o Concat(Tail(ss))

StartsWith(s, p) == Len(s) >= Len(p) /\ SubSeq(s, 1, Len(p)) = p

EndsWith(s, x) == Len(s) >= Len(x) /\ SubSeq(s, Len(s) - Len(x) + 1, Len(s)) = x

\* str.isspace for the characters of the model
IsSpace(c) == c \in {SPACE, NEWLINE}

RECURSIVE LStrip(_)
LStrip(s) == IF s # <<>> /\ IsSpace(Head(s)) THEN LStrip(Tail(s)) ELSE s

RECURSIVE RStrip(_)
RStrip(s) ==
    IF s # <<>> /\ IsSpace(s[Len(s)]) THEN RStrip(SubSeq(s, 1, Len(s) - 1)) ELSE s

\* str.strip()
Strip(s) == RStrip(LStrip(s))

\* str.replace(old, new) for a one-character old
ReplaceChar(s, old, new) == [i \in DOMAIN s |-> IF s[i] = old THEN new ELSE s[i]]

\* str.replace(old, new) for a two-character old: leftmost, non-overlapping
RECURSIVE ReplacePair(_, _, _, _)
ReplacePair(s, a, b, new) ==
    IF Len(s) < 2 THEN s
    ELSE IF s[1] = a /\ s[2] = b
         THEN <<new>> \o ReplacePair(SubSeq(s, 3, Len(s)), a, b, new)
         ELSE <<s[1]>> \o ReplacePair(Tail(s), a, b, new)

(***************************************************************************)
(* unicodedata                                                             *)
(***************************************************************************)
\* unicodedata.category(c).startswith('Mn')
IsMn(c) == c \in {FATHA, HAMZA_ABOVE}

\* canonical decomposition of one code point
Decomp(c) ==
    CASE c = YEH_HAMZA     -> <<YEH_AR, HAMZA_ABOVE>>
      [] c = HEH_YEH_ABOVE -> <<AE, HAMZA_ABOVE>>
      [] OTHER             -> <<c>>

\* unicodedata.normalize('NFD', text); the only marks of the model are
\* non-spacing and are dropped by the caller, so canonical reordering of
\* marks does not show in normalize's result.
NFD(s) == Concat([i \in DOMAIN s |-> Decomp(s[i])])

NotMn(c) == ~IsMn(c)

NotZWNJ(c) == c # ZWNJ

(***************************************************************************)
(* KurdishTokenizer                                                        *)
(***************************************************************************)
\* self.punctuation, as the set of its code points
punctuation ==
    (33..47) \cup (58..64) \cup (91..96) \cup (123..126)
        \cup {171, 187, 8226, 8230, 8211, 8212}

normalize(t) ==
    LET t1 == ReplaceChar(t, KAF_AR, KAF_KU)
        t2 == ReplaceChar(t1, YEH_AR, YEH_KU)
        t3 == ReplacePair(t2, HEH, ZWNJ, AE)
        n1 == SelectSeq(NFD(t3), NotMn)
    IN  SelectSeq(n1, NotZWNJ)

\* \w of a Python str pattern: alphanumeric or underscore
IsW(c) ==
    \/ c \in 48..57 \/ c \in 65..90 \/ c \in 97..122 \/ c = UNDERSCORE
    \/ c \in {KAF_AR, KAF_KU, YEH_AR, YEH_KU, HEH, AE, YEH_HAMZA, HEH_YEH_ABOVE}

\* the character class of word_pattern
IsWordChar(c) ==
    \/ IsW(c)
    \/ c \in 1536..1791
    \/ c \in 1872..1919
    \/ c \in 2208..2303
    \/ c \in 64336..65023
    \/ c \in 65136..65279

\* word_pattern.findall: the maximal runs of word characters, left to right
RECURSIVE WordRuns(_, _)
WordRuns(s, cur) ==
    IF s = <<>> THEN (IF cur = <<>> THEN <<>> ELSE <<cur>>)
    ELSE IF IsWordChar(Head(s)) THEN WordRuns(Tail(s), Append(cur, Head(s)))
         ELSE (IF cur = <<>> THEN <<>> ELSE <<cur>>) \o WordRuns(Tail(s), <<>>)

word_findall(s) == WordRuns(s, <<>>)

NonBlank(s) == Strip(s) # <<>>

tokenize(t) == SelectSeq(word_findall(normalize(t)), NonBlank)

IsTerminator(c) == c \in {FULL_STOP, EXCLAMATION, QUESTION}

\* a findall that also yields the unterminated run that ends the text
RECURSIVE SentRunsKeepTail(_, _)
SentRunsKeepTail(s, cur) ==
    IF s = <<>> THEN (IF cur = <<>> THEN <<>> ELSE <<cur>>)
    ELSE IF IsTerminator(Head(s))
         THEN (IF cur = <<>> THEN <<>> ELSE <<Append(cur, Head(s))>>)
              \o SentRunsKeepTail(Tail(s), <<>>)
         ELSE SentRunsKeepTail(Tail(s), Append(cur, Head(s)))

\* sentence_pattern.findall: at each position a maximal run of one or more
\* non-terminators followed by one terminator; a run that reaches the end
\* of the text matches nothing, and neither does any suffix of it.
RECURSIVE SentRuns(_, _)
SentRuns(s, cur) ==
    IF s = <<>> THEN <<>>
    ELSE IF IsTerminator(Head(s))
         THEN (IF cur = <<>> THEN <<>> ELSE <<Append(cur, Head(s))>>)
              \o SentRuns(Tail(s), <<>>)
         ELSE SentRuns(Tail(s), Append(cur, Head(s)))

sentence_findall(s) == SentRuns(s, <<>>)

StripEach(ss) == [i \in DOMAIN ss |-> Strip(ss[i])]

sentence_tokenize(t) ==
    LET n  == normalize(t)
        m  == sentence_findall(n)
        ss == IF m = <<>> /\ Strip(n) # <<>> THEN <<n>> ELSE m
    IN  StripEach(SelectSeq(ss, NonBlank))

(***************************************************************************)
(* KurdishStemmer                                                          *)
(***************************************************************************)
prefixes ==
    << <<1606, 1749>>, <<1576, 1749>>, <<1583, 1749>>, <<1607, 1749, 1717>>,
       <<1583, 1575>>, <<1685, 1575>> >>

suffixes ==
    << <<1749, 1705, 1575, 1606>>, <<1749, 1705, 1749>>, <<1742, 1705>>,
       <<1575, 1606>>, <<1740, 1588>>, <<1749>>, <<1740>>, <<1605>>, <<1578>>,
       <<1740>>, <<1605, 1575, 1606>>, <<1578, 1575, 1606>>,
       <<1740, 1575, 1606>> >>

\* len(stemmed) > len(prefix) + 2
PrefixGuard(w, p) == Len(w) > Len(p) + 2

SuffixGuardOffByOne(w, x) == Len(w) > Len(x) + 1

\* len(stemmed) > len(suffix) + 2
SuffixGuard(w, x) == Len(w) > Len(x) + 2

PrefixApplies(w, i) == StartsWith(w, prefixes[i]) /\ PrefixGuard(w, prefixes[i])

SuffixApplies(w, i) == EndsWith(w, suffixes[i]) /\ SuffixGuard(w, suffixes[i])

\* the entry at which the prefix loop breaks (0: the loop runs to its end)
PrefixIdx(w) ==
    IF \E i \in DOMAIN prefixes : PrefixApplies(w, i)
    THEN CHOOSE i \in DOMAIN prefixes :
             /\ PrefixApplies(w, i)
             /\ \A j \in 1..(i - 1) : ~PrefixApplies(w, j)
    ELSE 0

\* the entry at which the suffix loop breaks (0: the loop runs to its end)
SuffixIdx(w) ==
    IF \E i \in DOMAIN suffixes : SuffixApplies(w, i)
    THEN CHOOSE i \in DOMAIN suffixes :
             /\ SuffixApplies(w, i)
             /\ \A j \in 1..(i - 1) : ~SuffixApplies(w, j)
    ELSE 0

\* the word after the prefix loop
StripPrefix(w) ==
    IF PrefixIdx(w) = 0 THEN w
    ELSE SubSeq(w, Len(prefixes[PrefixIdx(w)]) + 1, Len(w))

\* the word after the suffix loop
StripSuffix(w) ==
    IF SuffixIdx(w) = 0 THEN w
    ELSE SubSeq(w, 1, Len(w) - Len(suffixes[SuffixIdx(w)]))

stem(w) == StripSuffix(StripPrefix(w))

(***************************************************************************)
(* Inputs of the model.                                                    *)
(***************************************************************************)
Strs(A, n) == UNION {[1..k -> A] : k \in 0..n}

Range(f) == {f[i] : i \in DOMAIN f}

\* characters normalize, word_pattern and self.punctuation treat differently
Alphabet ==
    {KAF_AR, YEH_AR, HEH, ZWNJ, FATHA, YEH_HAMZA, HEH_YEH_ABOVE, LATIN_A,
     SPACE, UNDERSCORE, COMMA, ARABIC_COMMA, FULL_STOP}

\* characters sentence_pattern and strip treat differently
SentAlphabet ==
    {FULL_STOP, EXCLAMATION, QUESTION, ARABIC_QUESTION, SPACE, LATIN_A, ZWNJ}

\* letters of roots: one that occurs in no affix, and letters of affixes
RootAlphabet == {1585, 1749, 1575, 1606, 1740}

TokIdle ==
    /\ input = <<>> /\ text = <<>> /\ nNorm = 0
    /\ words = <<>> /\ sentences = <<>> /\ done = {}

StemIdle ==
    /\ pfx = <<>> /\ root = <<>> /\ sfx = <<>> /\ word = <<>>
    /\ stemmed = <<>> /\ rmPrefix = 0 /\ rmSuffix = 0 /\ stemPc = "idle"

AppIdle ==
    /\ appPc = "idle"
    /\ form = [submitted |-> FALSE, uploaded |-> FALSE, hasData |-> FALSE,
               ext |-> "none"]
    /\ fs = {} /\ tmpPath = 0 /\ created = {} /\ blocks = 0 /\ page = 0
    /\ runs = 0

(***************************************************************************)
(* The tokenizer's operations, as a caller invokes them on its text.       *)
(***************************************************************************)
\* text = tokenizer.normalize(text)
Normalize ==
    /\ nNorm < MaxNormCalls
    /\ text' = normalize(text)
    /\ nNorm' = nNorm + 1
    /\ words' = <<>> /\ sentences' = <<>> /\ done' = {}
    /\ UNCHANGED <<input, stemVars, appVars>>

\* words = tokenizer.tokenize(text)
Tokenize ==
    /\ "tokenize" \notin done
    /\ words' = tokenize(text)
    /\ done' = done \cup {"tokenize"}
    /\ UNCHANGED <<input, text, nNorm, sentences, stemVars, appVars>>

\* sentences = tokenizer.sentence_tokenize(text)
SentenceTokenize ==
    /\ "sentence_tokenize" \notin done
    /\ sentences' = sentence_tokenize(text)
    /\ done' = done \cup {"sentence_tokenize"}
    /\ UNCHANGED <<input, text, nNorm, words, stemVars, appVars>>

\* stemmed = stemmer.stem(word)
Stem ==
    /\ stemPc = "idle"
    /\ stemmed' = stem(word)
    /\ rmPrefix' = PrefixIdx(word)
    /\ rmSuffix' = SuffixIdx(StripPrefix(word))
    /\ stemPc' = "done"
    /\ UNCHANGED <<pfx, root, sfx, word, tokVars, appVars>>

Init ==
    /\ input \in Strs(Alphabet, MaxLen)
    /\ text = input /\ nNorm = 0
    /\ words = <<>> /\ sentences = <<>> /\ done = {}
    /\ StemIdle /\ AppIdle

Next == Normalize \/ Tokenize

Spec == Init /\ [][Next]_vars

InitSent ==
    /\ input \in Strs(SentAlphabet, MaxSentLen)
    /\ text = input /\ nNorm = 0
    /\ words = <<>> /\ sentences = <<>> /\ done = {}
    /\ StemIdle /\ AppIdle

NextSent == SentenceTokenize

SpecSent == InitSent /\ [][NextSent]_vars

InitStem ==
    /\ pfx \in {<<>>} \cup Range(prefixes)
    /\ sfx \in {<<>>} \cup Range(suffixes)
    /\ root \in Strs(RootAlphabet, MaxRoot)
    /\ word = pfx \o root \o sfx
    /\ stemmed = <<>> /\ rmPrefix = 0 /\ rmSuffix = 0 /\ stemPc = "idle"
    /\ TokIdle /\ AppIdle

NextStem == Stem

SpecStem == InitStem /\ [][NextStem]_vars

(***************************************************************************)
(* src/app.py: one run of the Streamlit script is one call of main().      *)
(***************************************************************************)
Extensions == {"pdf", "png", "none"}

\* what one call of _extract_text_from_bytes does: it raises RuntimeError
\* (no API key, requests failure, status other than 200, body that is not
\* JSON), or returns "" or a text
Outcomes == {"no_key", "network", "http_error", "bad_json", "empty", "text"}

Raises(o) == o \in {"no_key", "network", "http_error", "bad_json"}

Forms ==
    [submitted : BOOLEAN, uploaded : BOOLEAN, hasData : BOOLEAN,
     ext : Extensions]

\* Streamlit runs the script: the widgets of lines 155-160 return their values
RunScript ==
    /\ appPc \in {"idle", "finished", "raised"}
    /\ runs < MaxRuns
    /\ runs' = runs + 1
    /\ form' \in Forms
    /\ appPc' = "check"
    /\ tmpPath' = 0 /\ created' = {} /\ blocks' = 0 /\ page' = 0
    /\ UNCHANGED <<fs, tokVars, stemVars>>

\* lines 162-172: the three early returns
CheckForm ==
    /\ appPc = "check"
    /\ appPc' = IF form.submitted /\ form.uploaded /\ form.hasData
                THEN "save" ELSE "finished"
    /\ UNCHANGED <<form, fs, tmpPath, created, blocks, page, runs,
                   tokVars, stemVars>>

\* line 174, _save_to_temp_file: NamedTemporaryFile(delete=False) creates the
\* file; write or flush may raise OSError, which close() in the finally
\* clause lets through to main's caller
SaveToTempFile ==
    /\ appPc = "save"
    /\ \E writeOk \in BOOLEAN :
        /\ fs' = fs \cup {runs}
        /\ created' = created \cup {runs}
        /\ IF writeOk
           THEN tmpPath' = runs /\ appPc' = "process"
           ELSE tmpPath' = tmpPath /\ appPc' = "raised"
    /\ UNCHANGED <<form, blocks, page, runs, tokVars, stemVars>>

\* line 177, _process_document on an image: _extract_image_text
ExtractImage ==
    /\ appPc = "process"
    /\ form.ext # "pdf"
    /\ \E o \in Outcomes :
        /\ appPc' = IF Raises(o) THEN "failed" ELSE "render"
        /\ blocks' = IF o = "text" THEN 1 ELSE 0
    /\ UNCHANGED <<form, fs, tmpPath, created, page, runs, tokVars, stemVars>>

\* line 177, _process_document on a PDF: fitz.open raises or gives a document
OpenPdf ==
    /\ appPc = "process"
    /\ form.ext = "pdf"
    /\ \/ appPc' = "failed" /\ page' = page
       \/ \E n \in 0..MaxPages :
            /\ page' = n
            /\ appPc' = IF n = 0 THEN "render" ELSE "pdf"
    /\ UNCHANGED <<form, fs, tmpPath, created, blocks, runs, tokVars, stemVars>>

\* one iteration of the page loop of _extract_pdf_text
ExtractPage ==
    /\ appPc = "pdf"
    /\ \E o \in Outcomes :
        /\ appPc' = IF Raises(o) THEN "failed"
                    ELSE IF page = 1 THEN "render" ELSE "pdf"
        /\ blocks' = IF o = "text" THEN blocks + 1 ELSE blocks
    /\ page' = page - 1
    /\ UNCHANGED <<form, fs, tmpPath, created, runs, tokVars, stemVars>>

\* lines 178-180: st.error, return
ReportFailure ==
    /\ appPc = "failed"
    /\ appPc' = "finally"
    /\ UNCHANGED <<form, fs, tmpPath, created, blocks, page, runs,
                   tokVars, stemVars>>

\* lines 182-200: st.info and return, or the text areas and download button
Render ==
    /\ appPc = "render"
    /\ appPc' = "finally"
    /\ UNCHANGED <<form, fs, tmpPath, created, blocks, page, runs,
                   tokVars, stemVars>>

\* lines 201-202: tmp_path.unlink(missing_ok=True)
Unlink ==
    /\ appPc = "finally"
    /\ fs' = fs \ {tmpPath}
    /\ appPc' = "finished"
    /\ UNCHANGED <<form, tmpPath, created, blocks, page, runs,
                   tokVars, stemVars>>

InitApp == TokIdle /\ StemIdle /\ AppIdle

NextApp ==
    \/ RunScript \/ CheckForm \/ SaveToTempFile \/ ExtractImage \/ OpenPdf
    \/ ExtractPage \/ ReportFailure \/ Render \/ Unlink

SpecApp == InitApp /\ [][NextApp]_vars

(***************************************************************************)
(* Properties.                                                             *)
(***************************************************************************)
Tokenized == "tokenize" \in done

Split == "sentence_tokenize" \in done

\* Arabic-script punctuation inside the blocks word_pattern accepts:
\* U+060C, U+061B, U+061F, U+06D4
ArabicPunctuation == {ARABIC_COMMA, 1563, ARABIC_QUESTION, 1748}

IsPunct(c) == c \in punctuation \cup ArabicPunctuation

HasTerminator(s) == \E i \in DOMAIN s : IsTerminator(s[i])

\* some terminator directly follows a character that is not a terminator
HasTerminated(s) ==
    \E i \in 2..Len(s) : IsTerminator(s[i]) /\ ~IsTerminator(s[i - 1])

\* ends with a terminator and holds no other
WellFormed(s) ==
    /\ s # <<>>
    /\ IsTerminator(s[Len(s)])
    /\ \A i \in 1..(Len(s) - 1) : ~IsTerminator(s[i])

\* the text after the last terminator
RECURSIVE Remainder(_)
Remainder(s) ==
    IF s = <<>> \/ IsTerminator(s[Len(s)]) THEN <<>>
    ELSE Append(Remainder(SubSeq(s, 1, Len(s) - 1)), s[Len(s)])

NotSpace(c) == ~IsSpace(c)

\* C1: normalize is idempotent: once the caller's text is a result of
\* normalize, normalizing it again gives the same text.
C1_NormalizeIdempotent == nNorm >= 1 => normalize(text) = text

\* C2: pre-normalizing is a no-op for tokenization: the tokens of
\* normalize(s) are the tokens of s.
C2_PreNormalizeNoOp == (Tokenized /\ nNorm = 1) => words = tokenize(input)

\* C3: no token returned by tokenize holds an Arabic KAF, an Arabic YEH, a
\* ZWNJ or a non-spacing mark.
C3_TokensNormalized ==
    Tokenized =>
        \A i \in DOMAIN words : \A k \in DOMAIN words[i] :
            /\ words[i][k] \notin {KAF_AR, YEH_AR, ZWNJ}
            /\ ~IsMn(words[i][k])

\* C4: tokenize excludes punctuation: no token is empty or made up only of
\* punctuation, and a text of punctuation and whitespace alone has no tokens.
C4_NoPunctuationTokens ==
    Tokenized =>
        /\ \A i \in DOMAIN words :
               /\ words[i] # <<>>
               /\ \E k \in DOMAIN words[i] : ~IsPunct(words[i][k])
        /\ (\A k \in DOMAIN text : IsPunct(text[k]) \/ IsSpace(text[k]))
               => words = <<>>

\* C5: stem never reduces a word to fewer than 3 characters: a result that
\* differs from the word has at least 3 characters.
C5_StemMinLength ==
    (stemPc = "done" /\ stemmed # word) => Len(stemmed) >= 3

\* C5 witness: a prefix and a suffix were both removed, down to 3 characters.
C5_Witness ==
    /\ stemPc = "done" /\ rmPrefix # 0 /\ rmSuffix # 0
    /\ Len(stemmed) = 3 /\ Len(word) > 3

\* C6: for every prefix p, suffix x and 3-character root r of the lists,
\* stem(p + r + x) is r.
C6_StemReturnsRoot ==
    (/\ stemPc = "done"
     /\ pfx \in Range(prefixes) /\ sfx \in Range(suffixes)
     /\ Len(root) = 3)
        => stemmed = root

\* C7 as amended: when some terminator of the normalized text directly
\* follows a non-terminator, every returned sentence ends with a terminator
\* and holds no other; when none does and the text is not blank, the result
\* is the one sentence equal to the whole trimmed text; a blank text gives
\* no sentence.
C7_Amended ==
    Split =>
        LET n == normalize(text)
        IN  /\ HasTerminated(n) =>
                /\ sentences # <<>>
                /\ \A i \in DOMAIN sentences : WellFormed(sentences[i])
            /\ (~HasTerminated(n) /\ Strip(n) # <<>>) =>
                sentences = <<Strip(n)>>
            /\ Strip(n) = <<>> => sentences = <<>>

\* C7 witness: a text was split into two terminated sentences.
C7_Witness ==
    /\ Split /\ Len(sentences) = 2 /\ Len(sentences[1]) = 2
    /\ HasTerminated(normalize(text))

\* C7 as stated: when the normalized text holds a terminator, every returned
\* sentence ends with a terminator and holds no other; the whole trimmed
\* text is returned as one sentence only when it holds no terminator.
C7_Original ==
    Split =>
        LET n == normalize(text)
        IN  /\ HasTerminator(n) =>
                \A i \in DOMAIN sentences : WellFormed(sentences[i])
            /\ (~HasTerminator(n) /\ Strip(n) # <<>>) =>
                sentences = <<Strip(n)>>

\* C8: for terminated sentences followed by a non-blank remainder without a
\* terminator, the remainder ends the last returned unit and no
\* non-whitespace character of the text is missing from the result.
C8_RemainderKept ==
    LET n == normalize(text)
    IN  (/\ Split
         /\ HasTerminated(n) /\ ~IsTerminator(n[1])
         /\ Strip(Remainder(n)) # <<>>)
            => /\ sentences # <<>>
               /\ EndsWith(sentences[Len(sentences)], Strip(Remainder(n)))
               /\ SelectSeq(Concat(sentences), NotSpace) = SelectSeq(n, NotSpace)

\* C9: at most one prefix and one suffix are removed, and longest first:
\* when two entries of an affix list both match the word and both pass the
\* length guard, the shorter one is not the one removed.
C9_LongestFirst ==
    stemPc = "done" =>
        LET w == StripPrefix(word)
        IN  /\ \E p \in {<<>>} \cup Range(prefixes) :
                   \E x \in {<<>>} \cup Range(suffixes) :
                       word = p \o stemmed \o x
            /\ \A i, j \in DOMAIN suffixes :
                   (/\ SuffixApplies(w, i) /\ SuffixApplies(w, j)
                    /\ Len(suffixes[i]) > Len(suffixes[j]))
                       => suffixes[rmSuffix] # suffixes[j]
            /\ \A i, j \in DOMAIN prefixes :
                   (/\ PrefixApplies(word, i) /\ PrefixApplies(word, j)
                    /\ Len(prefixes[i]) > Len(prefixes[j]))
                       => prefixes[rmPrefix] # prefixes[j]

\* C10: when main() has finished, by returning or by raising, no temporary
\* file created by that run exists.
C10_NoTempFileLeft ==
    appPc \in {"finished", "raised"} => created \cap fs = {}

====
